---- MODULE Spec2Model ----
\* Model of the access-control permission migrator
\* (src/pkg/services/ngalert/models/notifications.go, lines 192-424):
\* batch, generateNewRoleUID, bulkCreateRoles (createRoles / createRolesMySQL)
\* and bulkAssignRoles, over a store holding the role, user_role, team_role and
\* builtin_role tables.
EXTENDS Integers, Sequences, FiniteSets, TLC

VARIABLES
    pc,               \* position of the running operation
    batchSize,        \* package variable batchSize
    bat,              \* frame of batch(): [count, i]
    calls,            \* the eachFn invocations of the running batch(): [start, end, err]
    result,           \* error value returned by the running operation
    roleTable,        \* table role, in insertion order
    userRole,         \* table user_role
    teamRole,         \* table team_role
    builtinRole,      \* table builtin_role
    dbLog,            \* statements issued on the session, in order
    clock,            \* what time.Now() returns next
    dialect,          \* m.dialect.DriverName()
    allRoles,         \* argument of bulkCreateRoles (createRolesMySQL writes into it)
    allCreatedRoles,  \* value returned by bulkCreateRoles
    cr,               \* frame of createRoles / createRolesMySQL
    gen,              \* frame of the latest generateNewRoleUID call
    rolesMap,         \* argument of bulkAssignRoles: the role index
    assignments,      \* argument of bulkAssignRoles
    as                \* frame of bulkAssignRoles

vars == <<pc, batchSize, bat, calls, result, roleTable, userRole, teamRole,
          builtinRole, dbLog, clock, dialect, allRoles, allCreatedRoles, cr, gen,
          rolesMap, assignments, as>>

storeVars == <<roleTable, userRole, teamRole, builtinRole, dbLog, clock>>
createVars == <<dialect, allRoles, allCreatedRoles, cr, gen>>
assignVars == <<rolesMap, assignments, as>>

-----------------------------------------------------------------------------
\* Bounds of the model.

MaxCount == 6        \* largest count handed to batch() with the stub eachFn
MaxBatchSize == 2    \* batchSize ranges over 1..MaxBatchSize
MaxStubBatchSize == 3 \* the same, for batch() called with the stub eachFn
MaxRoles == 2        \* longest allRoles list
MaxAssign == 4       \* most (org, name) assignments in one bulkAssignRoles call

\* Program constants.
MaxUIDAttempts == 3  \* for i := 0; i < 3; i++

-----------------------------------------------------------------------------
\* Error values. Every error carries the same three fields.

Err(kind, name, at) == [kind |-> kind, name |-> name, at |-> at]
NoErr == Err("nil", <<>>, 0)
ErrStub(start) == Err("eachFn", <<>>, start)
ErrStorageMasked(stmt) == Err("failed to generate uid", <<>>, 0)
ErrStorage(stmt) == Err("storage", <<>>, stmt)
ErrUIDExhausted == Err("failed to generate uid", <<>>, 0)
ErrUnknownRole(name) == Err("unknown role", name, 0)
ErrParse(seg) == Err("strconv.ParseInt", seg, 0)

-----------------------------------------------------------------------------
\* Strings are sequences of one-character strings.

sManaged == <<"m", "a", "n", "a", "g", "e", "d">>
sUsers == <<"u", "s", "e", "r", "s">>
sTeams == <<"t", "e", "a", "m", "s">>
sBuiltins == <<"b", "u", "i", "l", "t", "i", "n", "s">>
sEditor == <<"e", "d", "i", "t", "o", "r">>
sCustom == <<"c", "u", "s", "t", "o", "m">>
Colon == <<":">>

nameUser7 == sManaged \o Colon \o sUsers \o Colon \o <<"7">>
nameTeam3 == sManaged \o Colon \o sTeams \o Colon \o <<"3">>
nameEditor == sManaged \o Colon \o sBuiltins \o Colon \o sEditor
nameCustom == sCustom \o Colon \o sEditor
nameUserBad == sManaged \o Colon \o sUsers \o Colon \o <<"x", "7">>
nameTeamBad == sManaged \o Colon \o sTeams \o Colon \o <<"3", "x">>
nameUsersX5 == sManaged \o Colon \o sUsers \o <<"X">> \o Colon \o <<"5">>
nameTeamsNoID == sManaged \o Colon \o sTeams

\* strings.HasPrefix(s, prefix)
HasPrefix(s, prefix) ==
    Len(s) >= Len(prefix) /\ SubSeq(s, 1, Len(prefix)) = prefix

\* strings.Split(s, ":")
RECURSIVE Split(_)
Split(s) ==
    IF \A j \in 1..Len(s) : s[j] # ":"
    THEN <<s>>
    ELSE LET j == CHOOSE x \in 1..Len(s) :
                      s[x] = ":" /\ \A y \in 1..(x - 1) : s[y] # ":"
         IN <<SubSeq(s, 1, j - 1)>> \o Split(SubSeq(s, j + 1, Len(s)))

DigitChars == <<"0", "1", "2", "3", "4", "5", "6", "7", "8", "9">>
IsDigit(c) == \E d \in 1..10 : DigitChars[d] = c
DigitVal(c) == (CHOOSE d \in 1..10 : DigitChars[d] = c) - 1

RECURSIVE DigitsVal(_)
DigitsVal(s) ==
    IF s = <<>> THEN 0
    ELSE 10 * DigitsVal(SubSeq(s, 1, Len(s) - 1)) + DigitVal(s[Len(s)])

ParseIntLenient(s) ==
    LET ds == SelectSeq(s, IsDigit)
    IN [ok |-> TRUE, val |-> DigitsVal(ds)]

\* strconv.ParseInt(s, 10, 64): an optional sign, then one or more decimal
\* digits (values beyond 64 bits are out of the model's reach)
ParseInt(s) ==
    LET signed == s # <<>> /\ s[1] \in {"+", "-"}
        ds == IF signed THEN SubSeq(s, 2, Len(s)) ELSE s
    IN IF ds # <<>> /\ \A j \in 1..Len(ds) : IsDigit(ds[j])
       THEN [ok |-> TRUE,
             val |-> IF signed /\ s[1] = "-" THEN 0 - DigitsVal(ds) ELSE DigitsVal(ds)]
       ELSE [ok |-> FALSE, val |-> 0]

LowerChars == <<"a", "b", "c", "d", "e", "f", "g", "h", "i", "j", "k", "l", "m",
                "n", "o", "p", "q", "r", "s", "t", "u", "v", "w", "x", "y", "z">>
UpperChars == <<"A", "B", "C", "D", "E", "F", "G", "H", "I", "J", "K", "L", "M",
                "N", "O", "P", "Q", "R", "S", "T", "U", "V", "W", "X", "Y", "Z">>
IsLower(c) == \E d \in 1..26 : LowerChars[d] = c
IsUpper(c) == \E d \in 1..26 : UpperChars[d] = c
ToUpper(c) == IF IsLower(c) THEN UpperChars[CHOOSE d \in 1..26 : LowerChars[d] = c] ELSE c
\* letters, digits and underscore do not separate words
IsSeparator(c) == ~(IsLower(c) \/ IsUpper(c) \/ IsDigit(c) \/ c = "_")

TitleUnchanged(s) == s
\* strings.Title(s): the letters that begin words are mapped to upper case
Title(s) ==
    [j \in 1..Len(s) |->
        IF j = 1 \/ IsSeparator(s[j - 1]) THEN ToUpper(s[j]) ELSE s[j]]

-----------------------------------------------------------------------------
\* The store: accesscontrol.Role rows of table role.

Orgs == {1, 2}
UIDs == {"a", "b"}     \* values util.GenerateShortUID() can return

Role(id, org, uid, name, version, created, updated) ==
    [ID |-> id, OrgID |-> org, UID |-> uid, Name |-> name, Version |-> version,
     Created |-> created, Updated |-> updated]

\* sess.Where("org_id=? AND uid=?", orgID, uid).Get(&accesscontrol.Role{})
uidExists(table, org, uid) ==
    \E n \in 1..Len(table) : table[n].OrgID = org /\ table[n].UID = uid

\* a statement issued on the session
Stmt(op, table, rows, ok) == [op |-> op, table |-> table, rows |-> rows, ok |-> ok]

\* time.Now()
Now == clock

-----------------------------------------------------------------------------
\* batch(count, batchSize, eachFn)

\* the loop condition  i < count
batchCond(i, count) == i < count

batchEndNoClamp(i, count, size) == i + size

\* end := i + batchSize; if end > count { end = count }
batchEnd(i, count, size) == IF i + size > count THEN count ELSE i + size

batchAdvanceStuck(b, end) == b

\* i = end
batchAdvance(b, end) == [b EXCEPT !.i = end]

\* batch() is entered with i = 0
batchFrame(count) == [count |-> count, i |-> 0]
NoFrame == batchFrame(0)

\* frame of generateNewRoleUID(sess, orgID): the existence checks made so far
\* (the loop variable i is their number) and what it returned
genFrame(org) == [org |-> org, checks |-> <<>>, uid |-> "", err |-> NoErr, ret |-> FALSE]
NoGen == genFrame(0)

\* frame of createRoles / createRolesMySQL(roles, start, end): ts, the index k of
\* the role whose uid is being generated, the uids generated so far
crFrame(start, end, ts) == [start |-> start, end |-> end, ts |-> ts, k |-> 1, uids |-> <<>>]
NoCr == [start |-> 0, end |-> 0, ts |-> 0, k |-> 0, uids |-> <<>>]

\* frame of bulkAssignRoles: ts, the two range loops (their variables orgID and
\* name, the organizations and names not visited yet) and the three slices of
\* bindings
asFrame(ts, orgs) ==
    [ts |-> ts, orgsLeft |-> orgs, org |-> 0, namesLeft |-> {}, name |-> <<>>,
     userRoleAssignments |-> <<>>, teamRoleAssignments |-> <<>>,
     builtInRoleAssignments |-> <<>>]
NoAs == asFrame(0, {})

\* Values of the variables an operation does not use.
IdleStore ==
    /\ roleTable = <<>> /\ userRole = <<>> /\ teamRole = <<>> /\ builtinRole = <<>>
    /\ dbLog = <<>> /\ clock = 1
IdleCreate ==
    /\ dialect = "none" /\ allRoles = <<>> /\ allCreatedRoles = <<>>
    /\ cr = NoCr /\ gen = NoGen
IdleAssign ==
    /\ rolesMap = <<>> /\ assignments = <<>> /\ as = NoAs

\* batch() called on its own, with an eachFn that records its window and may fail.
InitBatch ==
    /\ pc = "batch"
    /\ batchSize \in 1..MaxStubBatchSize
    /\ \E count \in 0..MaxCount : bat = batchFrame(count)
    /\ calls = <<>>
    /\ result = NoErr
    /\ IdleStore /\ IdleCreate /\ IdleAssign

StubEachIgnoreErr ==
    /\ pc = "batch"
    /\ batchCond(bat.i, bat.count)
    /\ LET end == batchEnd(bat.i, bat.count, batchSize) IN
       \E fails \in BOOLEAN :
           LET err == IF fails THEN ErrStub(bat.i) ELSE NoErr IN
           /\ calls' = Append(calls, [start |-> bat.i, end |-> end, err |-> err])
           /\ bat' = batchAdvance(bat, end)
           /\ UNCHANGED <<pc, result>>
    /\ UNCHANGED <<batchSize, storeVars, createVars, assignVars>>

\* One iteration of the loop: eachFn(i, end), return its error, else i = end.
StubEach ==
    /\ pc = "batch"
    /\ batchCond(bat.i, bat.count)
    /\ LET end == batchEnd(bat.i, bat.count, batchSize) IN
       \E fails \in BOOLEAN :
           LET err == IF fails THEN ErrStub(bat.i) ELSE NoErr IN
           /\ calls' = Append(calls, [start |-> bat.i, end |-> end, err |-> err])
           /\ IF fails
              THEN /\ pc' = "done"
                   /\ result' = err
                   /\ UNCHANGED bat
              ELSE /\ bat' = batchAdvance(bat, end)
                   /\ UNCHANGED <<pc, result>>
    /\ UNCHANGED <<batchSize, storeVars, createVars, assignVars>>

\* The loop condition fails: return nil.
StubReturn ==
    /\ pc = "batch"
    /\ ~batchCond(bat.i, bat.count)
    /\ pc' = "done"
    /\ result' = NoErr
    /\ UNCHANGED <<batchSize, bat, calls, storeVars, createVars, assignVars>>

NextBatch == StubEach \/ StubReturn

SpecBatch == InitBatch /\ [][NextBatch]_vars

\* batch() with every invocation of eachFn returning: the loop keeps running
\* until it returns
SpecBatchFair == SpecBatch /\ WF_vars(NextBatch)

-----------------------------------------------------------------------------
\* bulkCreateRoles(allRoles), with createRoles / createRolesMySQL and
\* generateNewRoleUID.

Dialects == {"mysql", "postgres"}
InputVersions == {0, 2}

\* role specifications handed to bulkCreateRoles: OrgID and Name set, no ID or UID
RoleSpecs ==
    {Role(0, org, "", name, v, 0, 0) :
        org \in Orgs, name \in {nameUser7, nameTeam3}, v \in InputVersions}

RoleLists == UNION {[1..n -> RoleSpecs] : n \in 0..MaxRoles}

\* contents of table role before the call
PreRole1 == Role(1, 1, "a", nameEditor, 1, 0, 0)
PreRole2 == Role(2, 1, "b", nameUser7, 1, 0, 0)
PreStores == {<<>>, <<PreRole1>>, <<PreRole1, PreRole2>>}

InitCreate ==
    /\ pc = "start"
    /\ batchSize \in 1..MaxBatchSize
    /\ bat = NoFrame
    /\ calls = <<>>
    /\ result = NoErr
    /\ roleTable \in PreStores
    /\ userRole = <<>> /\ teamRole = <<>> /\ builtinRole = <<>>
    /\ dbLog = <<>> /\ clock = 1
    /\ dialect \in Dialects
    /\ allRoles \in RoleLists
    /\ allCreatedRoles = <<>>
    /\ cr = NoCr /\ gen = NoGen
    /\ IdleAssign

\* if m.dialect.DriverName() == migrator.MySQL { createRoles = m.createRolesMySQL }
useMySQLNever(d) == FALSE
useMySQL(d) == d = "mysql"

\* if len(allRoles) == 0 { return nil, nil }; else enter batch(len(allRoles), ...)
CreateCall ==
    /\ pc = "start"
    /\ IF Len(allRoles) = 0
       THEN /\ pc' = "done"
            /\ UNCHANGED bat
       ELSE /\ pc' = "batch"
            /\ bat' = batchFrame(Len(allRoles))
    /\ UNCHANGED <<batchSize, calls, result, storeVars, createVars, assignVars>>

\* A window of the batch: eachFn calls createRoles(allRoles[start:end], start, end),
\* which takes ts := time.Now() and enters generateNewRoleUID for its first role.
CreateEach ==
    /\ pc = "batch"
    /\ batchCond(bat.i, bat.count)
    /\ LET end == batchEnd(bat.i, bat.count, batchSize) IN
       /\ calls' = Append(calls, [start |-> bat.i, end |-> end, err |-> NoErr])
       /\ cr' = crFrame(bat.i, end, Now)
       /\ gen' = genFrame(allRoles[bat.i + 1].OrgID)
    /\ clock' = clock + 1
    /\ pc' = "gen"
    /\ UNCHANGED <<batchSize, bat, result, roleTable, userRole, teamRole, builtinRole,
                   dbLog, dialect, allRoles, allCreatedRoles, assignVars>>

\* createRoles returns (nil, err); eachFn, batch and bulkCreateRoles return err.
CreateFailsGoesOn(err) ==
    /\ pc' = "batch"
    /\ result' = result
    /\ calls' = [calls EXCEPT ![Len(calls)].err = err]

CreateFails(err) ==
    /\ pc' = "done"
    /\ result' = err
    /\ calls' = [calls EXCEPT ![Len(calls)].err = err]

\* for i := 0; i < 3; i++
genLoopCond(i) == i < MaxUIDAttempts

genReturnsInUse(exists) == exists
\* if !exists { return uid, nil }
genReturns(exists) == ~exists

\* createRolesMySQL: roles[i].UID = uid; roles[i].Created = ts; roles[i].Updated = ts
\* (createRoles leaves its argument alone)
withUID(roles, n, uid, ts) ==
    IF useMySQL(dialect)
    THEN [roles EXCEPT ![n] = [@ EXCEPT !.UID = uid, !.Created = ts, !.Updated = ts]]
    ELSE roles

\* The generateNewRoleUID call in progress: a new one is entered for role k when
\* the previous one has returned.
genCurrent == IF gen.ret THEN genFrame(allRoles[cr.start + cr.k].OrgID) ELSE gen

GenAttemptInsertsEach ==
    /\ pc = "gen"
    /\ genLoopCond(Len(genCurrent.checks))
    /\ \E uid \in UIDs, fails \in BOOLEAN :
         IF fails
         THEN /\ gen' = [genCurrent EXCEPT !.err = ErrStorage(Len(dbLog) + 1),
                                           !.ret = TRUE]
              /\ dbLog' = Append(dbLog, Stmt("get", "role", 0, FALSE))
              /\ CreateFails(ErrStorage(Len(dbLog) + 1))
              /\ UNCHANGED <<cr, allRoles, roleTable>>
         ELSE LET exists == uidExists(roleTable, genCurrent.org, uid)
                  checks == Append(genCurrent.checks, [uid |-> uid, exists |-> exists])
                  r == allRoles[cr.start + cr.k]
              IN
              /\ dbLog' = Append(dbLog, Stmt("get", "role", 0, TRUE))
              /\ IF genReturns(exists)
                 THEN /\ gen' = [genCurrent EXCEPT !.checks = checks, !.uid = uid,
                                                   !.ret = TRUE]
                      /\ allRoles' = withUID(allRoles, cr.start + cr.k, uid, cr.ts)
                      /\ roleTable' = Append(roleTable,
                             Role(Len(roleTable) + 1, r.OrgID, uid, r.Name, 1, cr.ts, cr.ts))
                      /\ IF cr.start + cr.k < cr.end
                         THEN /\ cr' = [cr EXCEPT !.k = @ + 1, !.uids = Append(@, uid)]
                              /\ UNCHANGED <<pc, result, calls>>
                         ELSE /\ cr' = [cr EXCEPT !.uids = Append(@, uid)]
                              /\ pc' = "insert"
                              /\ UNCHANGED <<result, calls>>
                 ELSE IF genLoopCond(Len(checks))
                 THEN /\ gen' = [genCurrent EXCEPT !.checks = checks]
                      /\ UNCHANGED <<pc, result, calls, cr, allRoles, roleTable>>
                 ELSE /\ gen' = [genCurrent EXCEPT !.checks = checks,
                                                   !.err = ErrUIDExhausted, !.ret = TRUE]
                      /\ CreateFails(ErrUIDExhausted)
                      /\ UNCHANGED <<cr, allRoles, roleTable>>
    /\ UNCHANGED <<batchSize, bat, userRole, teamRole, builtinRole, clock,
                   dialect, allCreatedRoles, assignVars>>

\* One iteration of generateNewRoleUID's loop for role k of the window: a
\* candidate, its existence check, and what follows from its answer.
GenAttempt ==
    /\ pc = "gen"
    /\ genLoopCond(Len(genCurrent.checks))
    /\ \E uid \in UIDs, fails \in BOOLEAN :
         IF fails
         THEN \* the check's error is returned
              /\ gen' = [genCurrent EXCEPT !.err = ErrStorage(Len(dbLog) + 1),
                                           !.ret = TRUE]
              /\ dbLog' = Append(dbLog, Stmt("get", "role", 0, FALSE))
              /\ CreateFails(ErrStorage(Len(dbLog) + 1))
              /\ UNCHANGED <<cr, allRoles>>
         ELSE LET exists == uidExists(roleTable, genCurrent.org, uid)
                  checks == Append(genCurrent.checks, [uid |-> uid, exists |-> exists])
              IN
              /\ dbLog' = Append(dbLog, Stmt("get", "role", 0, TRUE))
              /\ IF genReturns(exists)
                 THEN \* return uid, nil
                      /\ gen' = [genCurrent EXCEPT !.checks = checks, !.uid = uid,
                                                   !.ret = TRUE]
                      /\ allRoles' = withUID(allRoles, cr.start + cr.k, uid, cr.ts)
                      /\ IF cr.start + cr.k < cr.end
                         THEN \* next role of the window
                              /\ cr' = [cr EXCEPT !.k = @ + 1, !.uids = Append(@, uid)]
                              /\ UNCHANGED <<pc, result, calls>>
                         ELSE /\ cr' = [cr EXCEPT !.uids = Append(@, uid)]
                              /\ pc' = "insert"
                              /\ UNCHANGED <<result, calls>>
                 ELSE IF genLoopCond(Len(checks))
                 THEN /\ gen' = [genCurrent EXCEPT !.checks = checks]
                      /\ UNCHANGED <<pc, result, calls, cr, allRoles>>
                 ELSE \* the loop ends: fmt.Errorf("failed to generate uid")
                      /\ gen' = [genCurrent EXCEPT !.checks = checks,
                                                   !.err = ErrUIDExhausted, !.ret = TRUE]
                      /\ CreateFails(ErrUIDExhausted)
                      /\ UNCHANGED <<cr, allRoles>>
    /\ UNCHANGED <<batchSize, bat, roleTable, userRole, teamRole, builtinRole, clock,
                   dialect, allCreatedRoles, assignVars>>

\* the window allRoles[start:end]
window == SubSeq(allRoles, cr.start + 1, cr.end)

\* INSERT INTO role (org_id, uid, name, version, created, updated)
\*   VALUES (?, ?, ?, 1, ?, ?), ...   with args r.OrgID, uid, r.Name, ts, ts
insertedRows ==
    [n \in 1..Len(window) |->
        Role(Len(roleTable) + n, window[n].OrgID, cr.uids[n], window[n].Name, 1,
             cr.ts, cr.ts)]

\* m.sess.Table("role").Insert(&roles): the structs as they are, ids from the table
insertedRowsMySQL ==
    [n \in 1..Len(window) |-> [window[n] EXCEPT !.ID = Len(roleTable) + n]]

\* RETURNING id, org_id, name  scanned into accesscontrol.Role values
returning(rows) ==
    [n \in 1..Len(rows) |-> Role(rows[n].ID, rows[n].OrgID, "", rows[n].Name, 0, 0, 0)]

\* the window's work is done: allCreatedRoles = append(...), return nil; i = end
CreateSucceeds(createdRoles) ==
    /\ allCreatedRoles' = allCreatedRoles \o createdRoles
    /\ bat' = batchAdvance(bat, cr.end)
    /\ pc' = "batch"

\* createRoles: the insert-and-fetch statement
Insert ==
    /\ pc = "insert"
    /\ ~useMySQL(dialect)
    /\ \E fails \in BOOLEAN :
         IF fails
         THEN /\ dbLog' = Append(dbLog, Stmt("insert returning", "role", Len(window), FALSE))
              /\ CreateFails(ErrStorage(Len(dbLog) + 1))
              /\ UNCHANGED <<roleTable, allCreatedRoles, bat>>
         ELSE /\ dbLog' = Append(dbLog, Stmt("insert returning", "role", Len(window), TRUE))
              /\ roleTable' = roleTable \o insertedRows
              /\ CreateSucceeds(returning(insertedRows))
              /\ UNCHANGED <<result, calls>>
    /\ UNCHANGED <<batchSize, userRole, teamRole, builtinRole, clock, dialect, allRoles,
                   cr, gen, assignVars>>

\* createRolesMySQL: the insert statement
InsertMySQL ==
    /\ pc = "insert"
    /\ useMySQL(dialect)
    /\ \E fails \in BOOLEAN :
         IF fails
         THEN /\ dbLog' = Append(dbLog, Stmt("insert", "role", Len(window), FALSE))
              /\ CreateFails(ErrStorage(Len(dbLog) + 1))
              /\ UNCHANGED roleTable
         ELSE /\ dbLog' = Append(dbLog, Stmt("insert", "role", Len(window), TRUE))
              /\ roleTable' = roleTable \o insertedRowsMySQL
              /\ pc' = "fetch"
              /\ UNCHANGED <<result, calls>>
    /\ UNCHANGED <<batchSize, bat, userRole, teamRole, builtinRole, clock, dialect,
                   allRoles, allCreatedRoles, cr, gen, assignVars>>

fetchMatchesOrgOnly(row) ==
    \E n \in 1..Len(window) : row.OrgID = window[n].OrgID

\* Where("(org_id = ? AND uid = ?) OR ...", roles[i].OrgID, uid, ...)
fetchMatches(row) ==
    \E n \in 1..Len(window) : row.OrgID = window[n].OrgID /\ row.UID = cr.uids[n]

\* createRolesMySQL: the fetch of the newly created roles
FetchMySQL ==
    /\ pc = "fetch"
    /\ \E fails \in BOOLEAN :
         IF fails
         THEN /\ dbLog' = Append(dbLog, Stmt("find", "role", 0, FALSE))
              /\ CreateFails(ErrStorage(Len(dbLog) + 1))
              /\ UNCHANGED <<allCreatedRoles, bat>>
         ELSE /\ dbLog' = Append(dbLog, Stmt("find", "role", 0, TRUE))
              /\ CreateSucceeds(SelectSeq(roleTable, fetchMatches))
              /\ UNCHANGED <<result, calls>>
    /\ UNCHANGED <<batchSize, roleTable, userRole, teamRole, builtinRole, clock, dialect,
                   allRoles, cr, gen, assignVars>>

\* batch's loop condition fails: batch returns nil, bulkCreateRoles returns
\* (allCreatedRoles, nil)
CreateReturn ==
    /\ pc = "batch"
    /\ ~batchCond(bat.i, bat.count)
    /\ pc' = "done"
    /\ UNCHANGED <<batchSize, bat, calls, result, storeVars, createVars, assignVars>>

NextCreate ==
    \/ CreateCall \/ CreateEach \/ GenAttempt \/ Insert \/ InsertMySQL \/ FetchMySQL
    \/ CreateReturn

SpecCreate == InitCreate /\ [][NextCreate]_vars

-----------------------------------------------------------------------------
\* bulkAssignRoles(rolesMap, assignments)

AssignNames ==
    <<nameUser7, nameTeam3, nameEditor, nameCustom, nameUserBad, nameUsersX5,
      nameTeamsNoID, nameTeamBad>>
NameIndex(name) == CHOOSE j \in 1..Len(AssignNames) : AssignNames[j] = name

\* the (org, name) pairs assignments are drawn from
AssignPairs ==
    {<<1, AssignNames[j]>> : j \in 1..Len(AssignNames)}
        \cup {<<2, name>> : name \in {nameUser7, nameTeam3, nameEditor}}

\* map[int64]map[string]struct{} holding the pairs of S
AssignmentsOf(S) ==
    [org \in {q[1] : q \in S} |-> {q[2] : q \in {x \in S : x[1] = org}}]

\* the role the index holds for a pair, as bulkCreateRoles returned it
IndexRole(org, name) ==
    Role(10 * org + NameIndex(name), org, "", name, 0, 0, 0)
RolesMapOf(S) ==
    [org \in {q[1] : q \in S} |->
        [name \in {q[2] : q \in {x \in S : x[1] = org}} |-> IndexRole(org, name)]]

AssignSets == {S \in SUBSET AssignPairs : Cardinality(S) <= MaxAssign}

InitAssign ==
    /\ pc = "start"
    /\ batchSize \in 1..MaxBatchSize
    /\ bat = NoFrame
    /\ calls = <<>>
    /\ result = NoErr
    /\ IdleStore /\ IdleCreate
    /\ \E S \in AssignSets :
         /\ \/ assignments = AssignmentsOf(S)
            \/ S = {} /\ assignments = [org \in {1} |-> {}]
         /\ \E missing \in {M \in SUBSET S : Cardinality(M) <= 1} :
                rolesMap = RolesMapOf(S \ missing)
    /\ as = NoAs

\* if len(assignments) == 0 { return nil }; ts := time.Now(); the three slices
AssignCall ==
    /\ pc = "start"
    /\ IF Cardinality(DOMAIN assignments) = 0
       THEN /\ pc' = "done"
            /\ UNCHANGED <<as, clock>>
       ELSE /\ pc' = "decode"
            /\ as' = asFrame(Now, DOMAIN assignments)
            /\ clock' = clock + 1
    /\ UNCHANGED <<batchSize, bat, calls, result, roleTable, userRole, teamRole,
                   builtinRole, dbLog, createVars, rolesMap, assignments>>

\* for orgID, roleNames := range assignments: the next organization, in any order
NextOrg ==
    /\ pc = "decode"
    /\ as.namesLeft = {}
    /\ \E org \in as.orgsLeft :
         as' = [as EXCEPT !.org = org, !.orgsLeft = @ \ {org},
                          !.namesLeft = assignments[org]]
    /\ UNCHANGED <<pc, batchSize, bat, calls, result, storeVars, createVars, rolesMap,
                   assignments>>

\* role, ok := rolesMap[orgID][name]
inIndex(org, name) ==
    /\ org \in DOMAIN rolesMap
    /\ name \in DOMAIN rolesMap[org]

UserRole(role, userID, ts) ==
    [OrgID |-> role.OrgID, RoleID |-> role.ID, UserID |-> userID, Created |-> ts]
TeamRole(role, teamID, ts) ==
    [OrgID |-> role.OrgID, RoleID |-> role.ID, TeamID |-> teamID, Created |-> ts]
BuiltinRole(role, builtIn, ts) ==
    [OrgID |-> role.OrgID, RoleID |-> role.ID, Role |-> builtIn, Created |-> ts,
     Updated |-> ts]

\* what one pass of the loop body does: append a binding to a slice, nothing,
\* return an error, or panic
Outcome(kind, row, err) == [kind |-> kind, row |-> row, err |-> err]
NoRow == <<>>

\* the loop body for a name the index holds (lines 271-302)
visitKnown(org, name) ==
    LET role == rolesMap[org][name]
        segs == Split(name)
    IN
    IF HasPrefix(name, sManaged \o Colon \o sUsers)
    THEN IF Len(segs) < 3 THEN Outcome("panic", NoRow, NoErr)
         ELSE LET userID == ParseInt(segs[3]) IN
              IF ~userID.ok THEN Outcome("error", NoRow, ErrParse(segs[3]))
              ELSE Outcome("user_role", UserRole(role, userID.val, as.ts), NoErr)
    ELSE IF HasPrefix(name, sManaged \o Colon \o sTeams)
    THEN IF Len(segs) < 3 THEN Outcome("panic", NoRow, NoErr)
         ELSE LET teamID == ParseInt(segs[3]) IN
              IF ~teamID.ok THEN Outcome("error", NoRow, ErrParse(segs[3]))
              ELSE Outcome("team_role", TeamRole(role, teamID.val, as.ts), NoErr)
    ELSE IF HasPrefix(name, sManaged \o Colon \o sBuiltins)
    THEN IF Len(segs) < 3 THEN Outcome("panic", NoRow, NoErr)
         ELSE Outcome("builtin_role", BuiltinRole(role, Title(segs[3]), as.ts), NoErr)
    ELSE Outcome("none", NoRow, NoErr)

visitSkipsUnknown(org, name) ==
    IF ~inIndex(org, name)
    THEN Outcome("none", NoRow, NoErr)
    ELSE visitKnown(org, name)

\* the loop body: if !ok { return &ErrUnknownRole{name} }, then the decoding
visit(org, name) ==
    IF ~inIndex(org, name)
    THEN Outcome("error", NoRow, ErrUnknownRole(name))
    ELSE visitKnown(org, name)

VisitNameWritesThrough ==
    /\ pc = "decode"
    /\ \E name \in as.namesLeft :
         LET out == visit(as.org, name)
             left == [as EXCEPT !.namesLeft = @ \ {name}, !.name = name]
         IN
         CASE out.kind = "error" ->
                  /\ pc' = "done"
                  /\ result' = out.err
                  /\ as' = left
                  /\ UNCHANGED <<userRole, teamRole, builtinRole, dbLog>>
           [] out.kind = "panic" ->
                  /\ pc' = "panic"
                  /\ as' = left
                  /\ UNCHANGED <<result, userRole, teamRole, builtinRole, dbLog>>
           [] out.kind = "user_role" ->
                  /\ as' = [left EXCEPT !.userRoleAssignments = Append(@, out.row)]
                  /\ userRole' = Append(userRole, out.row)
                  /\ dbLog' = Append(dbLog, Stmt("insert", "user_role", 1, TRUE))
                  /\ UNCHANGED <<pc, result, teamRole, builtinRole>>
           [] out.kind = "team_role" ->
                  /\ as' = [left EXCEPT !.teamRoleAssignments = Append(@, out.row)]
                  /\ teamRole' = Append(teamRole, out.row)
                  /\ dbLog' = Append(dbLog, Stmt("insert", "team_role", 1, TRUE))
                  /\ UNCHANGED <<pc, result, userRole, builtinRole>>
           [] out.kind = "builtin_role" ->
                  /\ as' = [left EXCEPT !.builtInRoleAssignments = Append(@, out.row)]
                  /\ builtinRole' = Append(builtinRole, out.row)
                  /\ dbLog' = Append(dbLog, Stmt("insert", "builtin_role", 1, TRUE))
                  /\ UNCHANGED <<pc, result, userRole, teamRole>>
           [] out.kind = "none" ->
                  /\ as' = left
                  /\ UNCHANGED <<pc, result, userRole, teamRole, builtinRole, dbLog>>
    /\ UNCHANGED <<batchSize, bat, calls, roleTable, clock, createVars, rolesMap,
                   assignments>>

\* for name := range roleNames: one pass of the loop body, names in any order
VisitName ==
    /\ pc = "decode"
    /\ \E name \in as.namesLeft :
         LET out == visit(as.org, name)
             left == [as EXCEPT !.namesLeft = @ \ {name}, !.name = name]
         IN
         CASE out.kind = "error" ->
                  /\ pc' = "done"
                  /\ result' = out.err
                  /\ as' = left
           [] out.kind = "panic" ->
                  /\ pc' = "panic"
                  /\ as' = left
                  /\ UNCHANGED result
           [] out.kind = "user_role" ->
                  /\ as' = [left EXCEPT !.userRoleAssignments = Append(@, out.row)]
                  /\ UNCHANGED <<pc, result>>
           [] out.kind = "team_role" ->
                  /\ as' = [left EXCEPT !.teamRoleAssignments = Append(@, out.row)]
                  /\ UNCHANGED <<pc, result>>
           [] out.kind = "builtin_role" ->
                  /\ as' = [left EXCEPT !.builtInRoleAssignments = Append(@, out.row)]
                  /\ UNCHANGED <<pc, result>>
           [] out.kind = "none" ->
                  /\ as' = left
                  /\ UNCHANGED <<pc, result>>
    /\ UNCHANGED <<batchSize, bat, calls, storeVars, createVars, rolesMap, assignments>>

\* the slice written to a table
bucket(table) ==
    CASE table = "user_role" -> as.userRoleAssignments
      [] table = "team_role" -> as.teamRoleAssignments
      [] table = "builtin_role" -> as.builtInRoleAssignments

firstTable == "user_role"

nextTableTeamsLast(table) ==
    CASE table = "user_role" -> "builtin_role"
      [] table = "builtin_role" -> "team_role"
      [] table = "team_role" -> "done"

\* the three batch() calls follow one another: user_role, team_role, builtin_role
nextTable(table) ==
    CASE table = "user_role" -> "team_role"
      [] table = "team_role" -> "builtin_role"
      [] table = "builtin_role" -> "done"

Tables == {"user_role", "team_role", "builtin_role"}

\* both loops have ended: batch(len(userRoleAssignments), batchSize, ...) is entered
DecodeDone ==
    /\ pc = "decode"
    /\ as.namesLeft = {} /\ as.orgsLeft = {}
    /\ pc' = firstTable
    /\ bat' = batchFrame(Len(bucket(firstTable)))
    /\ calls' = <<>>
    /\ UNCHANGED <<batchSize, result, storeVars, createVars, assignVars>>

InsertEachGoesOn ==
    /\ pc \in Tables
    /\ batchCond(bat.i, bat.count)
    /\ LET end == batchEnd(bat.i, bat.count, batchSize)
           rows == SubSeq(bucket(pc), bat.i + 1, end)
       IN
       \E fails \in BOOLEAN :
         /\ dbLog' = Append(dbLog, Stmt("insert", pc, Len(rows), ~fails))
         /\ calls' = Append(calls, [start |-> bat.i, end |-> end,
                                    err |-> IF fails THEN ErrStorage(Len(dbLog) + 1)
                                            ELSE NoErr])
         /\ userRole' = IF pc = "user_role" /\ ~fails THEN userRole \o rows
                        ELSE userRole
         /\ teamRole' = IF pc = "team_role" /\ ~fails THEN teamRole \o rows
                        ELSE teamRole
         /\ builtinRole' = IF pc = "builtin_role" /\ ~fails THEN builtinRole \o rows
                           ELSE builtinRole
         /\ bat' = batchAdvance(bat, end)
         /\ UNCHANGED <<pc, result>>
    /\ UNCHANGED <<batchSize, roleTable, clock, createVars, assignVars>>

\* A window of a batch: m.sess.Table(table).InsertMulti(slice[start:end]); its
\* error is returned by eachFn, batch and bulkAssignRoles.
InsertEach ==
    /\ pc \in Tables
    /\ batchCond(bat.i, bat.count)
    /\ LET end == batchEnd(bat.i, bat.count, batchSize)
           rows == SubSeq(bucket(pc), bat.i + 1, end)
       IN
       \E fails \in BOOLEAN :
         IF fails
         THEN /\ dbLog' = Append(dbLog, Stmt("insert", pc, Len(rows), FALSE))
              /\ calls' = Append(calls, [start |-> bat.i, end |-> end,
                                         err |-> ErrStorage(Len(dbLog) + 1)])
              /\ result' = ErrStorage(Len(dbLog) + 1)
              /\ pc' = "done"
              /\ UNCHANGED <<bat, userRole, teamRole, builtinRole>>
         ELSE /\ dbLog' = Append(dbLog, Stmt("insert", pc, Len(rows), TRUE))
              /\ calls' = Append(calls, [start |-> bat.i, end |-> end, err |-> NoErr])
              /\ userRole' = IF pc = "user_role" THEN userRole \o rows ELSE userRole
              /\ teamRole' = IF pc = "team_role" THEN teamRole \o rows ELSE teamRole
              /\ builtinRole' = IF pc = "builtin_role" THEN builtinRole \o rows
                                ELSE builtinRole
              /\ bat' = batchAdvance(bat, end)
              /\ UNCHANGED <<pc, result>>
    /\ UNCHANGED <<batchSize, roleTable, clock, createVars, assignVars>>

\* A batch's loop condition fails: it returns nil, and the next batch is entered
\* or, after the last one, bulkAssignRoles returns nil.
InsertReturn ==
    /\ pc \in Tables
    /\ ~batchCond(bat.i, bat.count)
    /\ pc' = nextTable(pc)
    /\ IF nextTable(pc) = "done"
       THEN UNCHANGED <<bat, calls>>
       ELSE /\ bat' = batchFrame(Len(bucket(nextTable(pc))))
            /\ calls' = <<>>
    /\ UNCHANGED <<batchSize, result, storeVars, createVars, assignVars>>

NextAssign ==
    \/ AssignCall \/ NextOrg \/ VisitName \/ DecodeDone \/ InsertEach \/ InsertReturn

SpecAssign == InitAssign /\ [][NextAssign]_vars

-----------------------------------------------------------------------------
\* Claims about batch().

AllSucceeded == \A k \in 1..Len(calls) : calls[k].err = NoErr
WindowsOf(x) == {k \in 1..Len(calls) : calls[k].start <= x /\ x < calls[k].end}

\* C1: with an eachFn that always succeeds, the windows passed to eachFn start
\* at 0, each starts where the previous one ended, each holds between 1 and
\* batchSize indices, and when batch returns (with success) the last one ends at
\* count, so every index of [0, count) lies in exactly one window; with
\* count = 0 eachFn is never invoked and batch returns success.
C1_Windows ==
    AllSucceeded =>
        /\ (Len(calls) >= 1 => calls[1].start = 0)
        /\ \A k \in 2..Len(calls) : calls[k].start = calls[k - 1].end
        /\ \A k \in 1..Len(calls) :
               /\ 1 <= calls[k].end - calls[k].start
               /\ calls[k].end - calls[k].start <= batchSize
        /\ (pc = "done" =>
               /\ result = NoErr
               /\ IF bat.count = 0 THEN calls = <<>>
                  ELSE calls # <<>> /\ calls[Len(calls)].end = bat.count
               /\ \A x \in 0..(bat.count - 1) : Cardinality(WindowsOf(x)) = 1)
        /\ (bat.count = 0 => calls = <<>>)

\* C1 witness: batch returned success after three or more windows, the last of
\* them cut short at count.
C1_Witness ==
    /\ pc = "done" /\ result = NoErr /\ AllSucceeded
    /\ Len(calls) >= 3
    /\ calls[Len(calls)].end - calls[Len(calls)].start < batchSize

\* C2: if eachFn fails on the k-th window, batch has returned exactly that
\* error, the k-th invocation is the last one (no later window is invoked), and
\* the windows before it were each invoked once.
C2_FirstError ==
    \A k \in 1..Len(calls) :
        calls[k].err # NoErr =>
            /\ k = Len(calls)
            /\ pc = "done"
            /\ result = calls[k].err
            /\ \A a, b \in 1..k : a < b => calls[a].start < calls[b].start
            /\ \A a \in 1..(k - 1) : calls[a].err = NoErr

\* C2 witness: the third or a later window failed, with count not yet covered.
C2_Witness ==
    /\ pc = "done" /\ Len(calls) >= 3
    /\ calls[Len(calls)].err # NoErr
    /\ calls[Len(calls)].end < bat.count

-----------------------------------------------------------------------------
\* Claims about bulkCreateRoles and generateNewRoleUID.

NoStorageFailure == \A n \in 1..Len(dbLog) : dbLog[n].ok
CountPair(roles, org, name) ==
    Cardinality({n \in 1..Len(roles) : roles[n].OrgID = org /\ roles[n].Name = name})
SamePairs(a, b) ==
    /\ Len(a) = Len(b)
    /\ \A n \in 1..Len(a) :
           CountPair(a, a[n].OrgID, a[n].Name) = CountPair(b, a[n].OrgID, a[n].Name)

\* C3 as stated: when no storage operation fails, bulkCreateRoles returns exactly
\* N roles whose (OrgID, Name) pairs are the input's.
C3_Original ==
    (pc = "done" /\ NoStorageFailure) => SamePairs(allCreatedRoles, allRoles)

\* C3 (amended): when no storage operation fails and no UID generation runs out
\* of attempts, bulkCreateRoles returns success with exactly N roles whose
\* (OrgID, Name) pairs are the input's, one returned role per input role, under
\* both strategies.
C3_ReturnsInput ==
    (pc = "done" /\ NoStorageFailure /\ gen.err # ErrUIDExhausted) =>
        /\ result = NoErr
        /\ SamePairs(allCreatedRoles, allRoles)

\* C3 witness: a successful two-step call of two windows on a table role that
\* already held rows.
C3_Witness ==
    /\ pc = "done" /\ result = NoErr /\ dialect = "mysql"
    /\ Len(allRoles) >= 2 /\ Len(calls) >= 2
    /\ \E n \in 1..Len(dbLog) : dbLog[n].op = "find"
    /\ Len(roleTable) > Len(allCreatedRoles)

\* C4: every role returned by a successful bulkCreateRoles carries a non-empty
\* UID, and no two roles of the same organization, returned by the call or
\* persisted before it, share a UID.
C4_UniqueUID ==
    (pc = "done" /\ result = NoErr) =>
        /\ \A n \in 1..Len(allCreatedRoles) : allCreatedRoles[n].UID # ""
        /\ \A m, n \in 1..Len(roleTable) :
               (m < n /\ roleTable[m].OrgID = roleTable[n].OrgID) =>
                   roleTable[m].UID # roleTable[n].UID

\* C5: generateNewRoleUID makes at most 3 existence checks, each for the given
\* organization; it returns the first candidate a check reports unused (at once
\* when that is the first), never one reported in use, and fails with
\* "failed to generate uid" exactly when all 3 candidates are reported in use.
C5_GenerateUID ==
    LET n == Len(gen.checks)
        storageErr == gen.ret /\ gen.err.kind = "storage"
    IN
    /\ n + (IF storageErr THEN 1 ELSE 0) <= 3
    /\ \A j \in 1..n :
           /\ gen.checks[j].uid # ""
           /\ (pc \in {"gen", "insert"} =>
                  (gen.checks[j].exists <=>
                      \E r \in 1..Len(roleTable) :
                          roleTable[r].OrgID = gen.org /\ roleTable[r].UID = gen.checks[j].uid))
           /\ (~gen.checks[j].exists =>
                  j = n /\ gen.ret /\ gen.err = NoErr /\ gen.uid = gen.checks[j].uid)
    /\ (gen.ret /\ gen.err = NoErr) =>
           n >= 1 /\ ~gen.checks[n].exists /\ gen.uid = gen.checks[n].uid
    /\ (gen.ret /\ gen.err = ErrUIDExhausted) <=>
           (n = 3 /\ \A j \in 1..n : gen.checks[j].exists)

\* C5 witness: three candidates were reported in use and generation failed.
C5_Witness ==
    /\ gen.ret /\ gen.err = ErrUIDExhausted /\ Len(gen.checks) = 3
    /\ pc = "done" /\ result = ErrUIDExhausted

\* C10: if the k-th window's creation fails, bulkCreateRoles has returned that
\* failure, the k-th window is the last one attempted, and the roles returned by
\* windows 1..k-1 are in table role; no row of table role is ever changed or
\* removed.
C10_State ==
    \A k \in 1..Len(calls) :
        calls[k].err # NoErr =>
            /\ k = Len(calls)
            /\ pc = "done"
            /\ result = calls[k].err
            /\ Len(allCreatedRoles) = calls[k].start
            /\ \A n \in 1..Len(allCreatedRoles) :
                   \E r \in 1..Len(roleTable) :
                       /\ roleTable[r].ID = allCreatedRoles[n].ID
                       /\ roleTable[r].OrgID = allCreatedRoles[n].OrgID
                       /\ roleTable[r].Name = allCreatedRoles[n].Name
RoleRowsKept ==
    /\ Len(roleTable') >= Len(roleTable)
    /\ SubSeq(roleTable', 1, Len(roleTable)) = roleTable
C10_FailedBatch == [](C10_State) /\ [][RoleRowsKept]_vars

\* C10 witness: the second window failed after the first one had been persisted.
C10_Witness ==
    /\ pc = "done" /\ Len(calls) = 2 /\ calls[2].err # NoErr
    /\ Len(allCreatedRoles) >= 1

-----------------------------------------------------------------------------
\* Claims about bulkAssignRoles.

Supplied == {q \in AssignPairs : q[1] \in DOMAIN assignments /\ q[2] \in assignments[q[1]]}
Indexed(q) == q[1] \in DOMAIN rolesMap /\ q[2] \in DOMAIN rolesMap[q[1]]
Missing == {q \in Supplied : ~Indexed(q)}

\* What each name of the model is expected to decode to: the table of its
\* managed prefix and its target, or "bad" where it has no decodable identifier.
Expected(name) ==
    CASE name = nameUser7 -> [table |-> "user_role", target |-> 7, bad |-> FALSE]
      [] name = nameUsersX5 -> [table |-> "user_role", target |-> 5, bad |-> FALSE]
      [] name = nameUserBad -> [table |-> "user_role", target |-> 0, bad |-> TRUE]
      [] name = nameTeam3 -> [table |-> "team_role", target |-> 3, bad |-> FALSE]
      [] name = nameTeamsNoID -> [table |-> "team_role", target |-> 0, bad |-> TRUE]
      [] name = nameTeamBad -> [table |-> "team_role", target |-> 0, bad |-> TRUE]
      [] name = nameEditor ->
             [table |-> "builtin_role", target |-> <<"E", "d", "i", "t", "o", "r">>,
              bad |-> FALSE]
      [] name = nameCustom -> [table |-> "none", target |-> 0, bad |-> FALSE]

SuppliedFor(table) == {q \in Supplied : Expected(q[2]).table = table}
ExpectedRows(table) ==
    {<<rolesMap[q[1]][q[2]].OrgID, rolesMap[q[1]][q[2]].ID, Expected(q[2]).target>> :
        q \in {x \in SuppliedFor(table) : ~Expected(x[2]).bad}}
WrittenRows(table) ==
    CASE table = "user_role" ->
             {<<userRole[n].OrgID, userRole[n].RoleID, userRole[n].UserID>> :
                 n \in 1..Len(userRole)}
      [] table = "team_role" ->
             {<<teamRole[n].OrgID, teamRole[n].RoleID, teamRole[n].TeamID>> :
                 n \in 1..Len(teamRole)}
      [] table = "builtin_role" ->
             {<<builtinRole[n].OrgID, builtinRole[n].RoleID, builtinRole[n].Role>> :
                 n \in 1..Len(builtinRole)}
TableLen(table) ==
    CASE table = "user_role" -> Len(userRole)
      [] table = "team_role" -> Len(teamRole)
      [] table = "builtin_role" -> Len(builtinRole)

C7_Original ==
    (pc = "done" /\ Missing # {}) =>
        /\ result.kind = "unknown role"
        /\ \E q \in Missing : result.name = q[2]

\* C7 (amended): if a supplied name has no role in the index, the call never
\* returns success; when the loop reaches a name missing from the index the
\* call returns at once an Unknown-role error carrying exactly that name, and an
\* Unknown-role error always carries a supplied name that is missing. (The call
\* ends otherwise only if a name reached earlier ended it.)
C7_State ==
    /\ (Missing # {} => ~(pc = "done" /\ result = NoErr))
    /\ (result.kind = "unknown role" =>
           /\ pc = "done"
           /\ <<as.org, result.name>> \in Missing
           /\ result.name = as.name)
C7_Step ==
    pc = "decode" =>
        \A name \in as.namesLeft \ as'.namesLeft :
            (as'.org = as.org /\ <<as.org, name>> \in Missing) =>
                pc' = "done" /\ result' = ErrUnknownRole(name)
C7_UnknownRole == [](C7_State) /\ [][C7_Step]_vars

\* C7 witness: an Unknown-role error after another binding had been decoded.
C7_Witness ==
    /\ pc = "done" /\ result.kind = "unknown role"
    /\ Len(as.userRoleAssignments) + Len(as.teamRoleAssignments) >= 1

RecognizedPrefix(name) ==
    \/ HasPrefix(name, sManaged \o Colon \o sUsers \o Colon)
    \/ HasPrefix(name, sManaged \o Colon \o sTeams \o Colon)
    \/ HasPrefix(name, sManaged \o Colon \o sBuiltins \o Colon)
BoundRoleIDs ==
    {userRole[n].RoleID : n \in 1..Len(userRole)}
        \cup {teamRole[n].RoleID : n \in 1..Len(teamRole)}
        \cup {builtinRole[n].RoleID : n \in 1..Len(builtinRole)}
        \cup {as.userRoleAssignments[n].RoleID : n \in 1..Len(as.userRoleAssignments)}
        \cup {as.teamRoleAssignments[n].RoleID : n \in 1..Len(as.teamRoleAssignments)}
        \cup {as.builtInRoleAssignments[n].RoleID :
                 n \in 1..Len(as.builtInRoleAssignments)}

\* C8: a supplied name (held by the index; a name the index lacks is C7's case)
\* that starts with none of managed:users:, managed:teams:, managed:builtins: is
\* ignored: no binding is made for its role, and the call does not end at it.
C8_UnrecognizedIgnored ==
    \A q \in Supplied :
        (Indexed(q) /\ ~RecognizedPrefix(q[2])) =>
            /\ rolesMap[q[1]][q[2]].ID \notin BoundRoleIDs
            /\ ~(/\ as.org = q[1] /\ as.name = q[2]
                 /\ \/ pc = "panic"
                    \/ pc = "done" /\ result # NoErr /\ result.kind # "storage")

TableRank(table) ==
    CASE table = "user_role" -> 1
      [] table = "team_role" -> 2
      [] table = "builtin_role" -> 3
Inserts == {n \in 1..Len(dbLog) : dbLog[n].op = "insert"}

\* C9: every user_role insert is issued before any team_role insert, and every
\* team_role insert before any builtin_role insert; each insert is one statement
\* of 1..batchSize rows, and a slice without bindings issues no insert.
C9_InsertOrder ==
    /\ \A m, n \in Inserts :
           m < n => TableRank(dbLog[m].table) <= TableRank(dbLog[n].table)
    /\ \A n \in Inserts : 1 <= dbLog[n].rows /\ dbLog[n].rows <= batchSize
    /\ \A n \in Inserts : bucket(dbLog[n].table) # <<>>
    /\ \A n \in 1..Len(dbLog) : dbLog[n].op = "insert" /\ dbLog[n].table \in Tables

\* C9 witness: two user_role inserts, then a team_role and a builtin_role insert.
C9_Witness ==
    /\ pc = "done" /\ result = NoErr
    /\ Len(dbLog) = 4
    /\ dbLog[2].table = "user_role" /\ dbLog[3].table = "team_role"
    /\ dbLog[4].table = "builtin_role"

-----------------------------------------------------------------------------
\* A further claim about batch().

CeilDiv(a, b) == (a + b - 1) \div b

\* C20: for count >= 0 and batchSize >= 1, with every invocation of eachFn
\* returning, batch returns after at most ceil(count / batchSize) invocations
\* of eachFn: each iteration that goes on strictly increases the loop index,
\* which never passes count, and the invocations made plus those the rest of
\* [i, count) can still need never exceed ceil(count / batchSize).
C20_State ==
    /\ bat.i <= bat.count
    /\ Len(calls) <= CeilDiv(bat.count, batchSize)
    /\ pc = "batch" =>
           Len(calls) + CeilDiv(bat.count - bat.i, batchSize)
               <= CeilDiv(bat.count, batchSize)
C20_Step == (calls' # calls /\ pc' = "batch") => bat'.i > bat.i
C20_Terminates == [](C20_State) /\ [][C20_Step]_vars /\ <>(pc = "done")

\* C20 witness: batch returned after exactly ceil(count / batchSize)
\* invocations, count not being a multiple of batchSize.
C20_Witness ==
    /\ pc = "done" /\ result = NoErr
    /\ Len(calls) = CeilDiv(bat.count, batchSize)
    /\ Len(calls) >= 2
    /\ Len(calls) * batchSize > bat.count

-----------------------------------------------------------------------------
\* Further claims about bulkCreateRoles and generateNewRoleUID.

\* rows the first n statements of the session added to table role
RECURSIVE InsertedUpTo(_)
InsertedUpTo(n) ==
    IF n = 0 THEN 0
    ELSE InsertedUpTo(n - 1)
           + (IF dbLog[n].table = "role" /\ dbLog[n].ok
                 /\ dbLog[n].op \in {"insert", "insert returning"}
              THEN dbLog[n].rows ELSE 0)
\* rows table role held before the call
PreLen == Len(roleTable) - InsertedUpTo(Len(dbLog))
\* positions in table role of the rows statement n inserted
RowsOf(n) == (PreLen + InsertedUpTo(n - 1) + 1)..(PreLen + InsertedUpTo(n))

\* C11: every row bulkCreateRoles has added to table role, under either
\* strategy and whatever Version its input role carried, has Version = 1 and
\* Created = Updated, and the rows added by one batch invocation share one
\* timestamp.
C11_VersionAndTimestamps ==
    /\ \A r \in (PreLen + 1)..Len(roleTable) :
           /\ roleTable[r].Version = 1
           /\ roleTable[r].Created = roleTable[r].Updated
    /\ \A n \in 1..Len(dbLog) :
           \A a, b \in RowsOf(n) : roleTable[a].Created = roleTable[b].Created

\* C12: no two rows of table role share (OrgID, Name): bulkCreateRoles adds no
\* row whose (OrgID, Name) a row persisted before the call or a row of an
\* earlier role of the same input already has. (That rows already persisted
\* are never changed or removed is the action property RoleRowsKept.)
C12_CreatedOncePerName ==
    \A m, n \in 1..Len(roleTable) :
        (m < n /\ roleTable[m].OrgID = roleTable[n].OrgID) =>
            roleTable[m].Name # roleTable[n].Name

\* What each strategy does with the window at hand, from the same table role,
\* the same generated UIDs and the same ts: the rows it inserts and the roles
\* it returns.
twoStepStructs ==
    [n \in 1..Len(window) |->
        [window[n] EXCEPT !.UID = cr.uids[n], !.Created = cr.ts, !.Updated = cr.ts]]
twoStepRows ==
    [n \in 1..Len(window) |-> [twoStepStructs[n] EXCEPT !.ID = Len(roleTable) + n]]
twoStepReturns == SelectSeq(roleTable \o twoStepRows, fetchMatches)
combiningRows == insertedRows
combiningReturns == returning(insertedRows)
RowData(r) == <<r.OrgID, r.UID, r.Name, r.Version, r.Created, r.Updated>>
Returned(r) == <<r.ID, r.OrgID, r.UID, r.Name>>

\* C14: the two-step strategy is the one used exactly when the dialect is
\* MySQL, and on the same window, from the same table role and with the same
\* generated UIDs, both strategies insert the same rows (OrgID, UID, Name,
\* Version, Created, Updated) and return roles with the same (OrgID, Name),
\* IDs and UIDs.
C14_Interchangeable ==
    /\ \A n \in 1..Len(dbLog) :
           /\ dbLog[n].op = "insert" => dialect = "mysql"
           /\ dbLog[n].op = "insert returning" => dialect # "mysql"
    /\ pc = "insert" =>
           /\ (dialect = "mysql" => twoStepRows = insertedRowsMySQL)
           /\ {RowData(twoStepRows[n]) : n \in 1..Len(window)}
                  = {RowData(combiningRows[n]) : n \in 1..Len(window)}
           /\ {Returned(twoStepReturns[n]) : n \in 1..Len(twoStepReturns)}
                  = {Returned(combiningReturns[n]) : n \in 1..Len(combiningReturns)}

FailedChecks == {n \in 1..Len(dbLog) : dbLog[n].op = "get" /\ ~dbLog[n].ok}

\* C15: generateNewRoleUID reports its two failures apart. A failed existence
\* check ends the call on that attempt: it is the last statement issued, and
\* the error returned, by generateNewRoleUID and by bulkCreateRoles, is that
\* storage error and not "failed to generate uid". "failed to generate uid" is
\* returned only after 3 checks that all succeeded and all reported the
\* candidate in use.
C15_FailuresApart ==
    /\ \A n \in FailedChecks :
           /\ n = Len(dbLog)
           /\ pc = "done"
           /\ gen.ret /\ gen.err.kind = "storage" /\ gen.err.at = n
           /\ result = gen.err
           /\ result # ErrUIDExhausted
           /\ Len(gen.checks) < MaxUIDAttempts
    /\ (gen.ret /\ gen.err.kind = "storage") => FailedChecks # {}
    /\ (result = ErrUIDExhausted \/ gen.err = ErrUIDExhausted) =>
           /\ pc = "done" /\ gen.ret
           /\ result = ErrUIDExhausted /\ gen.err = ErrUIDExhausted
           /\ result.kind # "storage"
           /\ FailedChecks = {}
           /\ Len(gen.checks) = MaxUIDAttempts
           /\ \A j \in 1..Len(gen.checks) : gen.checks[j].exists

\* C15 witness: the third existence check failed after two candidates had been
\* reported in use, and the call returned the storage error.
C15_Witness ==
    /\ pc = "done" /\ result.kind = "storage"
    /\ Len(gen.checks) = 2
    /\ Len(dbLog) \in FailedChecks

RoleInserts ==
    {n \in 1..Len(dbLog) :
        dbLog[n].table = "role" /\ dbLog[n].op \in {"insert", "insert returning"}}

\* C17: if generateNewRoleUID runs out of attempts for a role of a window,
\* under either strategy, no insert is issued for that window and table role is
\* as it was when the window started (the rows of the earlier windows, nothing
\* of this one), also when earlier roles of the window had got their UIDs; the
\* window's work up to the insert never touches table role.
C17_State ==
    (result = ErrUIDExhausted \/ gen.err = ErrUIDExhausted) =>
        LET k == Len(calls) IN
        /\ pc = "done" /\ result = ErrUIDExhausted
        /\ calls[k].err = ErrUIDExhausted
        /\ Cardinality(RoleInserts) = k - 1
        /\ \A n \in RoleInserts : dbLog[n].ok
        /\ dbLog[Len(dbLog)].op = "get"
        /\ InsertedUpTo(Len(dbLog)) = calls[k].start
        /\ PreLen \in {Len(pre) : pre \in PreStores}
        /\ \A j \in 1..calls[k].start :
               /\ roleTable[PreLen + j].OrgID = allRoles[j].OrgID
               /\ roleTable[PreLen + j].Name = allRoles[j].Name
        /\ Len(allCreatedRoles) = calls[k].start
C17_Step == pc = "gen" => roleTable' = roleTable
C17_ExhaustionAborts == [](C17_State) /\ [][C17_Step]_vars

\* C17 witness: in a window of two roles the first got its UID and the second
\* ran out of attempts; under the two-step strategy the first role's struct
\* already carries the UID.
C17_Witness ==
    /\ pc = "done" /\ result = ErrUIDExhausted
    /\ dialect = "mysql"
    /\ cr.end - cr.start = 2 /\ Len(cr.uids) = 1
    /\ allRoles[cr.start + 1].UID = cr.uids[1]

-----------------------------------------------------------------------------
\* Further claims about bulkAssignRoles.

\* the names whose identifier segment is present and is not an integer
InvalidIntegerID(name) == name \in {nameUserBad, nameTeamBad}
BadIDSupplied == {q \in Supplied : Indexed(q) /\ InvalidIntegerID(q[2])}

\* C13 as stated: if a supplied managed:users or managed:teams name has an
\* identifier segment that is not a valid integer, the call returns a parse
\* error.
C13_Original ==
    (pc = "done" /\ BadIDSupplied # {}) => result.kind = "strconv.ParseInt"

\* C13 (amended): if a supplied managed:users or managed:teams name held by the
\* index has an identifier segment that is not a valid integer, the call never
\* returns success and makes no binding for that name; when the loop reaches
\* such a name the call returns at once the parse error of that segment,
\* leaving the three slices as they were, and a parse error is only ever
\* returned for such a name.
C13_State ==
    /\ (BadIDSupplied # {} => ~(pc = "done" /\ result = NoErr))
    /\ \A q \in BadIDSupplied : rolesMap[q[1]][q[2]].ID \notin BoundRoleIDs
    /\ (result.kind = "strconv.ParseInt" =>
           /\ pc = "done"
           /\ <<as.org, as.name>> \in BadIDSupplied
           /\ result = ErrParse(Split(as.name)[3]))
C13_Step ==
    pc = "decode" =>
        \A name \in as.namesLeft \ as'.namesLeft :
            (as'.org = as.org /\ <<as.org, name>> \in BadIDSupplied) =>
                /\ pc' = "done"
                /\ result' = ErrParse(Split(name)[3])
                /\ as'.userRoleAssignments = as.userRoleAssignments
                /\ as'.teamRoleAssignments = as.teamRoleAssignments
                /\ as'.builtInRoleAssignments = as.builtInRoleAssignments
C13_ParseError == [](C13_State) /\ [][C13_Step]_vars

\* C13 witness: the parse error of a managed:teams identifier, returned after
\* another name had been decoded into a binding.
C13_Witness ==
    /\ pc = "done" /\ result = ErrParse(<<"3", "x">>)
    /\ as.name = nameTeamBad
    /\ Len(as.userRoleAssignments) + Len(as.builtInRoleAssignments) >= 1

\* rows the first n statements of the session added to a binding table
RECURSIVE InsertedInto(_, _)
InsertedInto(table, n) ==
    IF n = 0 THEN 0
    ELSE InsertedInto(table, n - 1)
           + (IF dbLog[n].table = table /\ dbLog[n].ok /\ dbLog[n].op = "insert"
              THEN dbLog[n].rows ELSE 0)
TableRows(table) ==
    CASE table = "user_role" -> userRole
      [] table = "team_role" -> teamRole
      [] table = "builtin_role" -> builtinRole
FailedInserts == {n \in 1..Len(dbLog) : dbLog[n].op = "insert" /\ ~dbLog[n].ok}

\* C16: if an insert of bulkAssignRoles fails, the call returns that storage
\* error and the failed insert is the last statement issued (no later batch of
\* its bucket, no batch of a later bucket); the rows of every insert that
\* succeeded before it are in their tables: the earlier buckets in full, the
\* failing bucket up to the failed batch, the later buckets not at all; and no
\* step ever removes or changes a row of the three tables.
C16_State ==
    /\ \A table \in Tables :
           /\ Len(TableRows(table)) = InsertedInto(table, Len(dbLog))
           /\ Len(TableRows(table)) <= Len(bucket(table))
           /\ TableRows(table) = SubSeq(bucket(table), 1, Len(TableRows(table)))
    /\ \A n \in FailedInserts :
           /\ n = Len(dbLog)
           /\ pc = "done"
           /\ result.kind = "storage" /\ result.at = n
           /\ calls[Len(calls)].err = result
           /\ Len(TableRows(dbLog[n].table)) = calls[Len(calls)].start
           /\ \A table \in Tables :
                  /\ TableRank(table) < TableRank(dbLog[n].table) =>
                         TableRows(table) = bucket(table)
                  /\ TableRank(table) > TableRank(dbLog[n].table) =>
                         TableRows(table) = <<>>
C16_Step ==
    /\ SubSeq(userRole', 1, Len(userRole)) = userRole
    /\ SubSeq(teamRole', 1, Len(teamRole)) = teamRole
    /\ SubSeq(builtinRole', 1, Len(builtinRole)) = builtinRole
C16_FailedInsert == [](C16_State) /\ [][C16_Step]_vars

\* C16 witness: the second team_role batch failed after the user_role bucket
\* and the first team_role batch had been inserted, with builtin_role bindings
\* still waiting.
C16_Witness ==
    /\ pc = "done" /\ result.kind = "storage"
    /\ Len(dbLog) \in FailedInserts /\ dbLog[Len(dbLog)].table = "team_role"
    /\ Len(userRole) >= 1 /\ Len(teamRole) >= 1
    /\ Len(teamRole) < Len(as.teamRoleAssignments)
    /\ Len(as.builtInRoleAssignments) >= 1 /\ builtinRole = <<>>

DecodeErrors == {"unknown role", "strconv.ParseInt"}

\* C18: the decoding of all assignments ends before the first insert. While
\* names are being decoded, and whenever the call has failed with Unknown-role
\* or with a parse error, no statement has been issued and user_role, team_role
\* and builtin_role hold no row of the call, however many bindings had been
\* decoded before the offending name and in whatever order names are visited;
\* once an insert has been issued every supplied name has been decoded.
C18_DecodeBeforeInsert ==
    /\ (pc = "decode" \/ result.kind \in DecodeErrors) =>
           /\ dbLog = <<>>
           /\ userRole = <<>> /\ teamRole = <<>> /\ builtinRole = <<>>
    /\ dbLog # <<>> =>
           /\ as.orgsLeft = {} /\ as.namesLeft = {}
           /\ result.kind \notin DecodeErrors
           /\ Missing = {} /\ BadIDSupplied = {}
           /\ Len(as.userRoleAssignments) + Len(as.teamRoleAssignments)
                  + Len(as.builtInRoleAssignments)
                = Cardinality({q \in Supplied : Expected(q[2]).table # "none"})

\* C18 witness: a parse error returned after two or more other names had been
\* decoded into bindings.
C18_Witness ==
    /\ pc = "done" /\ result.kind = "strconv.ParseInt"
    /\ Len(as.userRoleAssignments) + Len(as.teamRoleAssignments)
           + Len(as.builtInRoleAssignments) >= 2
    /\ dbLog = <<>>

\* C19: for every supplied name the index holds, the loop body ends with a
\* binding appended, the name ignored or an error returned, and the call never
\* crashes; a name with a managed prefix and fewer than three colon-separated
\* segments is handled without an out-of-range access.
C19_NeverCrashes ==
    /\ pc # "panic"
    /\ (as.name # <<>> /\ Indexed(<<as.org, as.name>>)) =>
           visit(as.org, as.name).kind
               \in {"user_role", "team_role", "builtin_role", "none", "error"}

====
